---- MODULE Spec2Model ----
(***************************************************************************)
(* Model of decode_mesytec_vme_data.cc: the word decoder                   *)
(* decode_mesytec_vme_word, the renderer print_decoded_vme_word and the    *)
(* read/decode/print loop of main.                                         *)
(*                                                                         *)
(* A std::uint32_t is kept as its two 16-bit halves [hi, lo], because the  *)
(* model checker's integers are 32-bit signed: the word 0xC18D01BD is      *)
(* W(\hC18D, \h01BD).  Every masked value the code divides or stores is    *)
(* below 2^30 and is handled as a plain integer (Val).                     *)
(***************************************************************************)
EXTENDS Integers, Sequences, FiniteSets

\* Longest token stream fed to the loop (besides the one-word streams).
MaxLen == 3

VARIABLES
    input,      \* the whitespace-separated tokens on stdin
    pos,        \* number of tokens std::cin has consumed
    pc,         \* position of main: "read", "decode", "print", "done"
    data_word,  \* main's local data_word
    decoded,    \* main's local decoded (the last record returned)
    out,        \* the lines written to stdout
    records     \* every record decode_mesytec_vme_word has returned, in order

vars == <<input, pos, pc, data_word, decoded, out, records>>

W(h, l) == [hi |-> h, lo |-> l]

\* The values of a std::uint32_t, as halves.
Half == 0..65535

RECURSIVE And16(_, _, _)
\* Bitwise AND of two n-bit naturals (the operator & on one half).
And16(a, b, n) ==
    IF n = 0 THEN 0
    ELSE (a % 2) * (b % 2) + 2 * And16(a \div 2, b \div 2, n - 1)

\* word & mask on std::uint32_t.
BitAnd(w, m) == W(And16(w.hi, m.hi, 16), And16(w.lo, m.lo, 16))

\* The integer a (masked) word stands for; used where it is below 2^31.
Val(w) == w.hi * 65536 + w.lo

\* Conversion to the width of the struct member that is assigned.
U8(n) == n % 256
U16(n) == n % 65536
U32(n) == n

----------------------------------------------------------------------------
\* decode_mesytec_vme_word: the five predicates (lines 61-66).

\* Variant: only bit 30 is tested.
header_found_bit30(word) == BitAnd(word, W(\h4000, \h0000)) = W(\h4000, \h0000)

header_found(word) == BitAnd(word, W(\hC000, \h0000)) = W(\h4000, \h0000)

\* Variant: the MxDC pattern is missing.
data_found_mdpp_only(word) == BitAnd(word, W(\hF000, \h0000)) = W(\h1000, \h0000)

data_found(word) ==
    \/ BitAnd(word, W(\hF000, \h0000)) = W(\h1000, \h0000)   \* MDPP
    \/ BitAnd(word, W(\hFF80, \h0000)) = W(\h0400, \h0000)   \* MxDC

extended_ts_found(word) == BitAnd(word, W(\hFF80, \h0000)) = W(\h0480, \h0000)

\* Variant: only the two top bits are compared with zero.
fill_word_found_top_bits(word) == BitAnd(word, W(\hC000, \h0000)) = W(\h0000, \h0000)

fill_word_found(word) == word = W(\h0000, \h0000)

eoe_found(word) == BitAnd(word, W(\hC000, \h0000)) = W(\hC000, \h0000)

\* decode_mesytec_vme_word: the field assignments (lines 70-85).

data_length(word) == U16(Val(BitAnd(word, W(\h0000, \h03FF))))

\* Variant: the divisor lacks a digit.
module_id_div_1000(word) == U8(Val(BitAnd(word, W(\h00FF, \h0000))) \div \h1000)

module_id(word) == U8(Val(BitAnd(word, W(\h00FF, \h0000))) \div \h10000)

\* Variant: the divisor is that of a shift by 8.
module_setting_div_100(word) == U8(Val(BitAnd(word, W(\h0000, \hFC00))) \div \h100)

module_setting(word) == U8(Val(BitAnd(word, W(\h0000, \hFC00))) \div \h400)

channel_address(word) == U8(Val(BitAnd(word, W(\h003F, \h0000))) \div \h0010000)

mdpp_flags(word) == U8(Val(BitAnd(word, W(\h0FC0, \h0000))) \div \h0040000)

high_stamp(word) == U16(Val(BitAnd(word, W(\h0000, \hFFFF))))

low_stamp(word) == U32(Val(BitAnd(word, W(\h3FFF, \hFFFF))))

\* A DecodedVMEDataWord with every member zero.
Zeroed ==
    [word |-> W(0, 0),
     header_found |-> FALSE, data_found |-> FALSE, extended_ts_found |-> FALSE,
     fill_word_found |-> FALSE, eoe_found |-> FALSE,
     data_length |-> 0, module_setting |-> 0, module_id |-> 0,
     channel_address |-> 0, mdpp_flags |-> 0,
     high_stamp |-> 0, low_stamp |-> 0]

\* Variant: result keeps what the previous call left in it (a static result).
StaleInit == decoded

\* DecodedVMEDataWord result = {};
ZeroInit == Zeroed

DecodedVMEDataWord == DOMAIN Zeroed

\* Variant: low_stamp is assigned without its if.
decode_low_stamp_unguarded(word) ==
    LET r0 == [ZeroInit EXCEPT
                 !.word = word,
                 !.header_found = header_found(word),
                 !.data_found = data_found(word),
                 !.extended_ts_found = extended_ts_found(word),
                 !.fill_word_found = fill_word_found(word),
                 !.eoe_found = eoe_found(word)]
        r1 == IF r0.header_found
              THEN [r0 EXCEPT !.data_length = data_length(word),
                              !.module_id = module_id(word),
                              !.module_setting = module_setting(word)]
              ELSE r0
        r2 == IF r1.data_found
              THEN [r1 EXCEPT !.channel_address = channel_address(word),
                              !.mdpp_flags = mdpp_flags(word)]
              ELSE r1
        r3 == IF r2.extended_ts_found
              THEN [r2 EXCEPT !.high_stamp = high_stamp(word)]
              ELSE r2
    IN  [r3 EXCEPT !.low_stamp = low_stamp(word)]

decode_mesytec_vme_word(word) ==
    LET r0 == [ZeroInit EXCEPT
                 !.word = word,
                 !.header_found = header_found(word),
                 !.data_found = data_found(word),
                 !.extended_ts_found = extended_ts_found(word),
                 !.fill_word_found = fill_word_found(word),
                 !.eoe_found = eoe_found(word)]
        r1 == IF r0.header_found
              THEN [r0 EXCEPT !.data_length = data_length(word),
                              !.module_id = module_id(word),
                              !.module_setting = module_setting(word)]
              ELSE r0
        r2 == IF r1.data_found
              THEN [r1 EXCEPT !.channel_address = channel_address(word),
                              !.mdpp_flags = mdpp_flags(word)]
              ELSE r1
        r3 == IF r2.extended_ts_found
              THEN [r2 EXCEPT !.high_stamp = high_stamp(word)]
              ELSE r2
        r4 == IF r3.eoe_found
              THEN [r3 EXCEPT !.low_stamp = low_stamp(word)]
              ELSE r3
    IN  r4

----------------------------------------------------------------------------
\* print_decoded_vme_word (lines 90-116).  A line is the sequence of the
\* pieces fprintf writes: literal text and single characters of a number.

HexChars == <<"0", "1", "2", "3", "4", "5", "6", "7",
              "8", "9", "a", "b", "c", "d", "e", "f">>

RECURSIVE Digits(_, _)
\* The digits of n in the given base, most significant first (%x, %d).
Digits(n, base) ==
    IF n < base THEN <<HexChars[n + 1]>>
    ELSE Digits(n \div base, base) \o <<HexChars[(n % base) + 1]>>

RECURSIVE Pad(_, _, _)
\* Minimum field width: %08x and %02x pad with "0", %2d pads with " ".
Pad(s, width, ch) ==
    IF Len(s) >= width THEN s ELSE Pad(<<ch>> \o s, width, ch)

\* The digits "%x" writes for a std::uint32_t: those of hi * 2^16 + lo.
HexDigits32(w) ==
    IF w.hi = 0 THEN Digits(w.lo, 16)
    ELSE Digits(w.hi, 16) \o Pad(Digits(w.lo, 16), 4, "0")

\* Variant: "%8x", padded with spaces.
Hex8_space_padded(w) == Pad(HexDigits32(w), 8, " ")

\* fprintf(out, "0x%08x ", dw.word)
Hex8(w) == Pad(HexDigits32(w), 8, "0")

\* The else-if chain of lines 96-113: the text after the hex word.
Descriptor(dw) ==
    IF dw.header_found
    THEN <<"module_header, module_id=0x">> \o Pad(Digits(dw.module_id, 16), 2, "0")
         \o <<", module_setting=0x">> \o Digits(dw.module_setting, 16)
         \o <<", data_length=">> \o Digits(dw.data_length, 10) \o <<" words">>
    ELSE IF dw.data_found
    THEN <<"data_word, channel_address=">> \o Pad(Digits(dw.channel_address, 10), 2, " ")
         \o <<", mdpp_flags=0x">> \o Digits(dw.mdpp_flags, 16)
    ELSE IF dw.extended_ts_found
    THEN <<"extended_ts, high_stamp=">> \o Digits(dw.high_stamp, 10)
    ELSE IF dw.eoe_found
    THEN <<"end_of_event, low_stamp=">> \o Digits(dw.low_stamp, 10)
    ELSE IF dw.fill_word_found
    THEN <<"fill_word">>
    ELSE <<>>

\* The members of dw the same chain reads.
PrintReads(dw) ==
    {"word", "header_found"} \cup
    IF dw.header_found THEN {"module_id", "module_setting", "data_length"}
    ELSE {"data_found"} \cup
    IF dw.data_found THEN {"channel_address", "mdpp_flags"}
    ELSE {"extended_ts_found"} \cup
    IF dw.extended_ts_found THEN {"high_stamp"}
    ELSE {"eoe_found"} \cup
    IF dw.eoe_found THEN {"low_stamp"}
    ELSE {"fill_word_found"}

print_decoded_vme_word(dw) ==
    <<"0x">> \o Hex8(dw.word) \o <<" ">> \o Descriptor(dw) \o <<"\n">>

----------------------------------------------------------------------------
\* main (lines 118-132).  A token is a numeral (hexadecimal, octal or
\* decimal by its prefix, the basefield flags being unset) of value
\* hi * 2^16 + lo, or text that is no numeral.

Num(h, l) == [tag |-> "num", hi |-> h, lo |-> l]
Junk == [tag |-> "junk", hi |-> 0, lo |-> 0]

\* std::cin >> data_word succeeds: the numeral fits a std::uint32_t.
Extracts(tok) == tok.tag = "num" /\ tok.hi \in Half

\* What a failed extraction leaves in data_word: the largest value for a
\* numeral out of range, zero for text that is no numeral.
FailValue(tok) == IF tok.tag = "num" THEN W(\hFFFF, \hFFFF) ELSE W(0, 0)

\* while (std::cin >> data_word), a word was extracted
ReadWord ==
    /\ pc = "read"
    /\ pos < Len(input)
    /\ Extracts(input[pos + 1])
    /\ data_word' = W(input[pos + 1].hi, input[pos + 1].lo)
    /\ pos' = pos + 1
    /\ pc' = "decode"
    /\ UNCHANGED <<input, decoded, out, records>>

\* while (std::cin >> data_word), end of stream or a failed extraction
ReadStop ==
    /\ pc = "read"
    /\ \/ /\ pos = Len(input)
          /\ UNCHANGED data_word
       \/ /\ pos < Len(input)
          /\ ~Extracts(input[pos + 1])
          /\ data_word' = FailValue(input[pos + 1])
    /\ pc' = "done"
    /\ UNCHANGED <<input, pos, decoded, out, records>>

\* auto decoded = decode_mesytec_vme_word(data_word);
Decode ==
    /\ pc = "decode"
    /\ decoded' = decode_mesytec_vme_word(data_word)
    /\ records' = Append(records, decoded')
    /\ pc' = "print"
    /\ UNCHANGED <<input, pos, data_word, out>>

\* print_decoded_vme_word(stdout, decoded);
PrintDecoded ==
    /\ pc = "print"
    /\ out' = Append(out, print_decoded_vme_word(decoded))
    /\ pc' = "read"
    /\ UNCHANGED <<input, pos, data_word, decoded, records>>

----------------------------------------------------------------------------
\* The inputs.

\* One word of each kind, a numeral that does not fit 32 bits, and text.
Tokens ==
    {Num(\h4001, \h0c07), Num(\h1010, \h0868), Num(\h0480, \h0057),
     Num(\hc18d, \h01bd), Num(\h0000, \h0000), Num(\h2000, \h0000),
     Num(\h10000, \h0001), Junk}

RECURSIVE SeqsOfLen(_, _)
SeqsOfLen(S, n) ==
    IF n = 0 THEN {<<>>}
    ELSE {Append(s, x) : s \in SeqsOfLen(S, n - 1), x \in S}

Streams == UNION {SeqsOfLen(Tokens, n) : n \in 0..MaxLen}

\* The streams of two words and the two kinds of token that end the loop.
EndingTokens ==
    {Num(\hc18d, \h01bd), Num(\h0000, \h0000), Num(\h10000, \h0001), Junk}

EndingStreams == UNION {SeqsOfLen(EndingTokens, n) : n \in 0..MaxLen}

\* The words of the example in the file header and of the documentation.
ExampleWords ==
    {W(\h4001, \h0c07), W(\h1010, \h0868), W(\h1000, \h036e), W(\h1030, \h02aa),
     W(\h1011, \h0868), W(\h1001, \h0417), W(\h1031, \h0317), W(\hc18d, \h01bd),
     W(\h0000, \h0000), W(\h0480, \h0057), W(\h2000, \h0000)}

\* The predicates read bits 31..23 and whether the word is zero; the fields
\* read bits 29..0.  Every pattern of bits 31..23 is combined with low parts
\* (bits 22..16, bits 15..0) that are zero, one, all ones, and the ends of
\* each field.
TopPatterns == 0..511

LowParts ==
    {<<\h00, \h0000>>, <<\h00, \h0001>>, <<\h00, \h03FF>>, <<\h00, \h0400>>,
     <<\h00, \hFC00>>, <<\h00, \hFFFF>>, <<\h01, \h0000>>, <<\h3F, \h0000>>,
     <<\h40, \h0000>>, <<\h7F, \hFFFF>>, <<\h2A, \hAAAA>>, <<\h55, \h5555>>}

Words ==
    {W(t * 128 + l[1], l[2]) : t \in TopPatterns, l \in LowParts} \cup ExampleWords

\* The state when main starts: nothing read, nothing written.  data_word is
\* not initialized and decoded does not exist yet; neither is read before
\* its first assignment, so each starts at zero.
Started ==
    /\ pos = 0
    /\ pc = "read"
    /\ data_word = W(0, 0)
    /\ decoded = Zeroed
    /\ out = <<>>
    /\ records = <<>>

\* stdin holds a token stream, or one word of Words.
Init == input \in Streams \cup {<<Num(w.hi, w.lo)>> : w \in Words} /\ Started

\* stdin holds a stream of words, ended or not by an unparseable token.
InitStream == input \in EndingStreams /\ Started

Next == ReadWord \/ ReadStop \/ Decode \/ PrintDecoded

Spec == Init /\ [][Next]_vars

\* main is one sequential thread: it takes its next step whenever it has one.
FairSpec == InitStream /\ [][Next]_vars /\ WF_vars(Next)

TypeOK ==
    /\ pos \in 0..Len(input)
    /\ pc \in {"read", "decode", "print", "done"}
    /\ data_word.hi \in Half /\ data_word.lo \in Half
    /\ Len(out) <= pos /\ Len(records) <= pos

----------------------------------------------------------------------------
\* Vocabulary of the properties.

\* The word the i-th token stands for.
WordAt(i) == W(input[i].hi, input[i].lo)

\* The documented predicates.
is_header(w) == BitAnd(w, W(\hC000, \h0000)) = W(\h4000, \h0000)
is_data(w) ==
    \/ BitAnd(w, W(\hF000, \h0000)) = W(\h1000, \h0000)
    \/ BitAnd(w, W(\hFF80, \h0000)) = W(\h0400, \h0000)
is_ext_ts(w) == BitAnd(w, W(\hFF80, \h0000)) = W(\h0480, \h0000)
is_eoe(w) == BitAnd(w, W(\hC000, \h0000)) = W(\hC000, \h0000)
is_fill(w) == w.hi = 0 /\ w.lo = 0

\* The first match in the documented order.
FirstMatch(w) ==
    IF is_header(w) THEN "ModuleHeader"
    ELSE IF is_data(w) THEN "DataWord"
    ELSE IF is_ext_ts(w) THEN "ExtendedTimestamp"
    ELSE IF is_eoe(w) THEN "EndOfEvent"
    ELSE IF is_fill(w) THEN "FillWord"
    ELSE "Unrecognized"

\* The kind a written line shows: its text after "0x", eight digits and " ".
LineKind(line) ==
    IF Len(line) < 11 THEN "Malformed"
    ELSE IF Len(line) = 11 THEN "Unrecognized"
    ELSE IF line[11] = "module_header, module_id=0x" THEN "ModuleHeader"
    ELSE IF line[11] = "data_word, channel_address=" THEN "DataWord"
    ELSE IF line[11] = "extended_ts, high_stamp=" THEN "ExtendedTimestamp"
    ELSE IF line[11] = "end_of_event, low_stamp=" THEN "EndOfEvent"
    ELSE IF line[11] = "fill_word" /\ Len(line) = 12 THEN "FillWord"
    ELSE "Malformed"

\* Bit i of n, and n shifted right by k bits, for n below 2^31.
Bit(n, i) == (n \div (2 ^ i)) % 2

RECURSIVE ShrFrom(_, _, _)
ShrFrom(n, k, i) ==
    IF i + k > 30 THEN 0 ELSE Bit(n, i + k) * (2 ^ i) + ShrFrom(n, k, i + 1)

Shr(n, k) == ShrFrom(n, k, 0)

\* (w & mask) >> k, the mask given by its halves.
MaskShift(w, mhi, mlo, k) == Shr(Val(BitAnd(w, W(mhi, mlo))), k)

\* The eight hexadecimal digits of a word, one per nibble.
Nibbles(w) ==
    [k \in 1..8 |->
        HexChars[(IF k <= 4 THEN (w.hi \div (16 ^ (4 - k))) % 16
                  ELSE (w.lo \div (16 ^ (8 - k))) % 16) + 1]]

\* A token that parses as a 32-bit word.
Parseable(tok) == tok.tag = "num" /\ tok.hi <= \hFFFF

RECURSIVE ParsedPrefix(_)
\* The number of tokens before the first unparseable one.
ParsedPrefix(toks) ==
    IF toks = <<>> \/ ~Parseable(Head(toks)) THEN 0
    ELSE 1 + ParsedPrefix(Tail(toks))

ValueFields ==
    {"data_length", "module_setting", "module_id", "channel_address",
     "mdpp_flags", "high_stamp", "low_stamp"}

FieldsOf(kind) ==
    IF kind = "ModuleHeader" THEN {"data_length", "module_setting", "module_id"}
    ELSE IF kind = "DataWord" THEN {"channel_address", "mdpp_flags"}
    ELSE IF kind = "ExtendedTimestamp" THEN {"high_stamp"}
    ELSE IF kind = "EndOfEvent" THEN {"low_stamp"}
    ELSE {}

FlagCount(r) ==
    Cardinality({f \in {"header_found", "data_found", "extended_ts_found",
                        "fill_word_found", "eoe_found"} : r[f]})

----------------------------------------------------------------------------
\* C1: every word that was decoded and printed shows exactly one kind on its
\* line, and that kind is the first match in the order is_header, is_data,
\* is_ext_ts, is_eoe, is_fill, else Unrecognized; no word is an error.
C1_FirstMatchSelected ==
    \A i \in 1..Len(out) :
        /\ LineKind(out[i]) # "Malformed"
        /\ LineKind(out[i]) = FirstMatch(WordAt(i))

C1_Witness ==
    /\ Len(out) = 1
    /\ WordAt(1) = W(\h0400, \h0001)
    /\ LineKind(out[1]) = "DataWord"

\* C2: the documented example words decode to the documented kinds and
\* field values.
C2_Examples ==
    \A i \in 1..Len(out) :
        LET r == records[i]
            k == LineKind(out[i])
            IsData(ch) == k = "DataWord" /\ r.channel_address = ch /\ r.mdpp_flags = 0
        IN
        /\ r.word = W(\h4001, \h0c07) =>
              k = "ModuleHeader" /\ r.module_id = 1 /\ r.module_setting = 3
              /\ r.data_length = 7
        /\ r.word = W(\h1010, \h0868) => IsData(16)
        /\ r.word = W(\h1000, \h036e) => IsData(0)
        /\ r.word = W(\h1030, \h02aa) => IsData(48)
        /\ r.word = W(\h1011, \h0868) => IsData(17)
        /\ r.word = W(\h1001, \h0417) => IsData(1)
        /\ r.word = W(\h1031, \h0317) => IsData(49)
        /\ r.word = W(\hc18d, \h01bd) => k = "EndOfEvent" /\ r.low_stamp = 26018237
        /\ r.word = W(\h0000, \h0000) => k = "FillWord"
        /\ r.word = W(\h0480, \h0057) =>
              k = "ExtendedTimestamp" /\ r.high_stamp = \h0057
        /\ r.word = W(\h2000, \h0000) => k = "Unrecognized"

C2_Witness ==
    /\ Len(out) = 3
    /\ records[1].word = W(\h4001, \h0c07) /\ records[1].module_setting = 3
    /\ records[2].word = W(\h1010, \h0868) /\ records[2].channel_address = 16
    /\ records[3].word = W(\hc18d, \h01bd) /\ records[3].low_stamp = 26018237

\* C3: for every decoded word whose owning predicate matches, the stored
\* data_length, module_id, module_setting, channel_address, high_stamp and
\* low_stamp equal the masked word shifted right by the documented number of
\* bits, unaltered by the width of the member.
C3_MaskShiftFields ==
    \A i \in 1..Len(records) :
        LET r == records[i]
            w == r.word
        IN
        /\ is_header(w) =>
              /\ r.data_length = MaskShift(w, \h0000, \h03FF, 0)
              /\ r.module_id = MaskShift(w, \h00FF, \h0000, 16)
              /\ r.module_setting = MaskShift(w, \h0000, \hFC00, 10)
        /\ is_data(w) => r.channel_address = MaskShift(w, \h003F, \h0000, 16)
        /\ is_ext_ts(w) => r.high_stamp = MaskShift(w, \h0000, \hFFFF, 0)
        /\ is_eoe(w) => r.low_stamp = MaskShift(w, \h3FFF, \hFFFF, 0)

C3_Witness ==
    /\ Len(records) = 1
    /\ records[1].word = W(\h7FFF, \hFFFF)
    /\ records[1].module_id = 255
    /\ records[1].module_setting = 63
    /\ records[1].data_length = 1023

\* C4: for every word classified as a data word, the stored mdpp_flags
\* equals (w & 0x0FC00000) >> 18.
C4_MdppFlagsShift18 ==
    \A i \in 1..Len(records) :
        is_data(records[i].word) =>
            records[i].mdpp_flags = MaskShift(records[i].word, \h0FC0, \h0000, 18)

\* C5: every field of every decoded record lies within its documented width.
C5_FieldWidths ==
    \A i \in 1..Len(records) :
        LET r == records[i] IN
        /\ r.module_id <= \hFF
        /\ r.module_setting <= \h3F
        /\ r.data_length <= \h3FF
        /\ r.channel_address <= \h3F
        /\ r.mdpp_flags <= \h3F
        /\ r.high_stamp <= \hFFFF
        /\ r.low_stamp <= \h3FFFFFFF

\* C6: in every returned record the fields that do not belong to the kind
\* selected for the word are zero, and printing the record reads no field
\* of another kind.
C6_OnlySelectedKindPopulated ==
    \A i \in 1..Len(records) :
        LET r == records[i]
            own == FieldsOf(FirstMatch(r.word))
        IN
        /\ \A f \in ValueFields \ own : r[f] = 0
        /\ PrintReads(r) \cap ValueFields \subseteq own

C6_Witness ==
    /\ Len(out) = 2
    /\ FirstMatch(records[1].word) = "ModuleHeader" /\ records[1].data_length = 7
    /\ FirstMatch(records[2].word) = "EndOfEvent" /\ records[2].low_stamp > 0
    /\ records[2].data_length = 0

\* The lines written so far are those of the first words of the stream, each
\* behind the eight hexadecimal digits of its own word, and when main is
\* done there is one line for every word before the first unparseable token.
C7_Lines ==
    /\ Len(out) <= ParsedPrefix(input)
    /\ \A i \in 1..Len(out) :
          /\ Len(out[i]) >= 11
          /\ out[i][1] = "0x"
          /\ SubSeq(out[i], 2, 9) = Nibbles(WordAt(i))
          /\ out[i][10] = " "
          /\ out[i][Len(out[i])] = "\n"
    /\ pc = "done" => Len(out) = ParsedPrefix(input)

\* C7: the loop writes exactly one line per successfully parsed word, in
\* input order, each line behind its own word's eight hexadecimal digits;
\* it stops at the first unparseable token or at the end of the stream,
\* writes nothing for that token or any later one, and terminates.
C7_OneLinePerParsedWord == []C7_Lines /\ <>(pc = "done")

C7_Witness ==
    /\ pc = "done"
    /\ Len(input) = 3
    /\ ~Parseable(input[3])
    /\ Len(out) = 2
    /\ SubSeq(out[1], 2, 9) = <<"0", "0", "0", "0", "0", "0", "0", "0">>
    /\ SubSeq(out[2], 2, 9) = <<"c", "1", "8", "d", "0", "1", "b", "d">>

\* C8: a word matching no pattern is written as a line of the hex word
\* alone, the loop goes on to the end of the parseable words, and a word
\* after it is written as the same word is before it.
C8_UnrecognizedGoesOn ==
    LET unrec == {i \in 1..ParsedPrefix(input) : FirstMatch(WordAt(i)) = "Unrecognized"}
    IN
    /\ \A i \in unrec :
          i <= Len(out) => out[i] = <<"0x">> \o Nibbles(WordAt(i)) \o <<" ", "\n">>
    /\ (pc = "done" /\ unrec # {}) => Len(out) = ParsedPrefix(input)
    /\ \A j, k \in 1..Len(out) :
          (/\ WordAt(j) = WordAt(k)
           /\ \E i \in unrec : i < j
           /\ \A i \in unrec : k < i) => out[j] = out[k]

C8_Witness ==
    /\ pc = "done"
    /\ Len(out) = 3
    /\ FirstMatch(WordAt(2)) = "Unrecognized"
    /\ Len(out[2]) = 11
    /\ WordAt(1) = WordAt(3)
    /\ LineKind(out[3]) = "EndOfEvent"

\* C9: two occurrences of the same word, at any positions of the stream,
\* produce identical records and identical lines.
C9_SameWordSameRecord ==
    \A i, j \in 1..Len(records) :
        records[i].word = records[j].word =>
            /\ records[i] = records[j]
            /\ (i <= Len(out) /\ j <= Len(out)) => out[i] = out[j]

C9_Witness ==
    /\ Len(out) = 3
    /\ records[1].word = records[3].word
    /\ records[2].word # records[1].word
    /\ FirstMatch(records[1].word) = "DataWord"
    /\ FirstMatch(records[2].word) = "ModuleHeader"

\* C10, as stated: some word sets two or more of the five flags in the record
\* decode_mesytec_vme_word returns for it.
C10_SomeWordOverlaps ==
    pc = "done" => \E w \in Words : FlagCount(decode_mesytec_vme_word(w)) >= 2

\* C10, amended: no returned record has more than one of the five flags
\* set, so the order of the tests does not change the kind selected.
C10_AtMostOneFlag ==
    \A i \in 1..Len(records) : FlagCount(records[i]) <= 1

C10_Witness ==
    /\ Len(records) = 1
    /\ records[1].word = W(\h0480, \h0057)
    /\ records[1].extended_ts_found
    /\ ~records[1].data_found

====
